---- MODULE Spec2Model ----
(***************************************************************************)
(* Client-side HTTP/3 core of the h3 crate: the connection driver          *)
(* (ConnectionInner / client::Connection), the request dispatcher          *)
(* (client::SendRequest) and the request stream (RequestStream), over an   *)
(* abstract QUIC transport and peer.                                       *)
(*                                                                         *)
(* The QUIC transport, the frame codec and the QPACK codec are external    *)
(* collaborators.  A frame is a record [kind, val]; a header block is      *)
(* opaque and carries only the estimated size the QPACK codec reports for  *)
(* it (val), or Malformed when the codec rejects it.                       *)
(***************************************************************************)
EXTENDS Integers, Sequences, FiniteSets, TLC

(* ------------------------------ bounds --------------------------------- *)

\* unidirectional streams the peer opens on one connection
MaxUniStreams == 3
\* frames written on the peer's control stream(s) and not yet read
MaxCtlFrames == 2
\* bidirectional streams the peer opens toward the client
MaxPeerBidi == 2
\* calls of ConnectionInner::close recorded by the transport
MaxCloseCalls == 2
\* frames the peer writes on one request stream
MaxRespFrames == 3
\* frames the user writes on one request stream after the request head
MaxSendFrames == 1

(* ----------------------------- constants ------------------------------- *)

\* VarInt::MAX is 2^62 - 1.  It is only ever compared with sizes, so it is
\* represented by the largest integer the model checker handles.
VarIntMax == 2147483647

\* A SETTINGS frame without a MAX_HEADER_LIST_SIZE entry.
NoSetting == -1
\* A header block the QPACK decoder rejects.
Malformed == -1

\* limits a user configures / a peer advertises, and block sizes
Limits == {64, VarIntMax}
BlockSizes == {16, 4096}

UniTypes == {"CONTROL", "ENCODER"}

(* ------------------------------- errors -------------------------------- *)

NoReason == <<>>

NoError == [kind |-> "None", code |-> "", reason |-> NoReason, actual |-> 0, limit |-> 0]

\* Code::X.with_reason(r) / Code::X.into() / Code::X.with_cause(e)
ProtocolError(code, reason) ==
    [kind |-> "Protocol", code |-> code, reason |-> reason, actual |-> 0, limit |-> 0]

\* Error::transport(e)
TransportError(reason) ==
    [kind |-> "Transport", code |-> "", reason |-> reason, actual |-> 0, limit |-> 0]

\* Error::header_too_big(actual, limit)
HeaderTooBig(actual, limit) ==
    [kind |-> "HeaderTooBig", code |-> "", reason |-> NoReason, actual |-> actual, limit |-> limit]

\* an error of a collaborator (QPACK codec, header validation)
CollaboratorError(what) ==
    [kind |-> "Codec", code |-> "", reason |-> <<what>>, actual |-> 0, limit |-> 0]

(* ------------------------- results of a poll --------------------------- *)

NotPolled == [poll |-> "None", err |-> NoError]
Pending == [poll |-> "Pending", err |-> NoError]
ReadyOk == [poll |-> "Ready", err |-> NoError]
ReadyErr(e) == [poll |-> "Ready", err |-> e]
Panicked == [poll |-> "Panic", err |-> NoError]

(* ------------------------------- frames -------------------------------- *)

Frame(kind, val) == [kind |-> kind, val |-> val]

ControlFrames ==
    {Frame("Settings", v) : v \in {NoSetting, 64}}
    \cup {Frame(k, 0) : k \in {"Goaway", "CancelPush", "MaxPushId", "Data", "PushPromise"}}
    \cup {Frame("Headers", 16)}

VARIABLES
    \* ---- driver (ConnectionInner / client::Connection) ----
    phase,                  \* "new" | "built" | "failed" | "panicked"
    buildErr,               \* the error Builder::build returned
    max_field_section_size, \* the configured local limit
    control_send,           \* what was written on the outbound control stream
    control_recv,           \* 0 (None) or the id of the peer control stream
    pending_recv_streams,   \* ids of streams whose type is not dispatched yet
    got_peer_settings,
    shared,                 \* SharedState: [peer_max_field_section_size, error]
    \* ---- transport and peer ----
    uni,                    \* peer-opened unidirectional streams, by id
    uniAccepted,            \* how many of them poll_accept_recv has taken
    connState,              \* "open" | "closed" | "error"
    bidiIncoming,           \* peer-opened bidi streams not yet accepted
    bidiOpened,             \* peer-opened bidi streams so far
    closeCalls,             \* (code, reason) of each conn.close
    \* ---- observation of the driver ----
    lastClose,              \* what the last poll_close did
    hist,                   \* history of the driver
    \* ---- dispatcher (client::SendRequest) and request stream ----
    sr,                     \* the send_request call in progress
    sendRes,                \* what the last send_request returned
    stream,                 \* the bidi stream send_request opened last
    req_stream,             \* the RequestStream send_request returned last
    lastOp,                 \* the last operation on the request stream
    accepted,               \* what the frames of the stream were taken as
    \* ---- what the peer, the transport and the user may do in this run ----
    load

driverVars == <<phase, buildErr, max_field_section_size, control_send, control_recv,
                pending_recv_streams, got_peer_settings>>
envVars == <<uni, uniAccepted, connState, bidiIncoming, bidiOpened, closeCalls, load>>
reqVars == <<sr, sendRes, stream, req_stream, lastOp, accepted>>
vars == <<driverVars, shared, envVars, lastClose, hist, reqVars>>

(* ---------------------------- shared state ----------------------------- *)

\* SharedStateRef::default
SharedStateDefault == [peer_max_field_section_size |-> VarIntMax, error |-> NoError]

\* ConnectionState::maybe_conn_err
maybe_conn_err(sh, err) == IF sh.error # NoError THEN sh.error ELSE err

(* ------------------------------ Init ----------------------------------- *)

NoFrame == Frame("None", 0)

NoPollClose ==
    [res |-> NotPolled, ctl |-> NotPolled, frame |-> NoFrame, awaiting |-> FALSE,
     first |-> FALSE, second |-> FALSE, hadBidi |-> FALSE, bidi |-> "notpolled"]

\* The runs of the model are bounded by a load: how many unidirectional
\* streams the peer opens, how many control frames it has in flight, how many
\* bidirectional streams it opens, whether streams and the connection end,
\* how many frames the peer writes on a request stream and how many frames
\* the user writes on it.  Requests follow one another without a bound.
Load(u, c, b, se, ce, rf, sf) ==
    [uni |-> u, ctl |-> c, bidi |-> b, streamEnds |-> se, connEnds |-> ce,
     resp |-> rf, sends |-> sf]

DriverLoads ==
    { Load(1, MaxCtlFrames, 0, TRUE, FALSE, 0, 0),      \* control frames
      Load(MaxUniStreams, 0, 0, TRUE, FALSE, 0, 0),     \* stream classification
      Load(1, 1, MaxPeerBidi, FALSE, TRUE, 0, 0) }      \* inbound bidi, shutdown

RequestLoads ==
    { Load(1, 1, 0, TRUE, FALSE, 0, MaxSendFrames),  \* peer SETTINGS
      Load(0, 0, 0, FALSE, FALSE, MaxRespFrames, 0), \* responses
      Load(0, 0, MaxPeerBidi, FALSE, TRUE, 1, 0),    \* connection error
      Load(0, 0, 1, FALSE, FALSE, 0, MaxSendFrames) }

NoOp == [op |-> "none", err |-> NoError, out |-> "none", connErr |-> NoError]

\* no send_request has returned; limitNow is the shared peer limit at the
\* moment send_request returned
NoSendResult ==
    [op |-> "none", err |-> NoError, out |-> "none", connErr |-> NoError, limitNow |-> 0]

NoStream ==
    [opened |-> FALSE, wire |-> <<>>, frames |-> <<>>, sent |-> 0, tail |-> "open",
     remaining |-> 0, broken |-> FALSE, finished |-> FALSE, stops |-> <<>>]

NoRequestStream == [live |-> FALSE, trailers |-> <<>>, max_field_section_size |-> 0]

Idle == [pc |-> "idle", snapshot |-> 0, size |-> 0]

InitState ==
    /\ phase = "new"
    /\ buildErr = NoError
    /\ max_field_section_size = VarIntMax
    /\ control_send = <<>>
    /\ control_recv = 0
    /\ pending_recv_streams = <<>>
    /\ got_peer_settings = FALSE
    /\ shared = SharedStateDefault
    /\ uni = <<>>
    /\ uniAccepted = 0
    /\ connState = "open"
    /\ bidiIncoming = 0
    /\ bidiOpened = 0
    /\ closeCalls = <<>>
    /\ lastClose = NoPollClose
    /\ hist = [assigned |-> <<>>, seen |-> {}, read |-> FALSE, ctlFailed |-> FALSE]

    /\ sr = Idle
    /\ sendRes = NoSendResult
    /\ stream = NoStream
    /\ req_stream = NoRequestStream
    /\ lastOp = NoOp
    /\ accepted = <<>>

Init == InitState /\ load \in DriverLoads

InitReq == InitState /\ load \in RequestLoads

(* --------------------- Builder::build / ConnectionInner::new ----------- *)

BuildOutcomes == {"ok", "open_err", "insert_err", "write_type_err", "write_settings_err"}

\* as ControlSendWritten, but the SETTINGS frame carries the default limit
\* instead of the configured one
ControlSendWritten_DefaultLimit(m, outcome) ==
    CASE outcome \in {"open_err", "insert_err", "write_type_err"} -> <<>>
      [] outcome = "write_settings_err" -> <<[item |-> "StreamType", val |-> "CONTROL"]>>
      [] OTHER -> <<[item |-> "StreamType", val |-> "CONTROL"],
                    [item |-> "Settings", val |-> VarIntMax]>>

\* what ConnectionInner::new has written on the control send-stream when it
\* ends with the given outcome
ControlSendWritten(m, outcome) ==
    CASE outcome \in {"open_err", "insert_err", "write_type_err"} -> <<>>
      [] outcome = "write_settings_err" -> <<[item |-> "StreamType", val |-> "CONTROL"]>>
      [] OTHER -> <<[item |-> "StreamType", val |-> "CONTROL"],
                    [item |-> "Settings", val |-> m]>>

\* the error ConnectionInner::new returns
NewError(outcome) ==
    CASE outcome = "ok" -> NoError
      [] outcome = "open_err" -> ProtocolError("H3_STREAM_CREATION_ERROR", NoReason)
      [] outcome = "insert_err" -> ProtocolError("H3_INTERNAL_ERROR", NoReason)
      [] OTHER -> TransportError(<<"write">>)

\* Builder::max_field_section_size(m) (or the default) followed by build
Build(m, outcome) ==
    /\ phase = "new"
    /\ max_field_section_size' = m
    /\ control_send' = ControlSendWritten(m, outcome)
    /\ buildErr' = NewError(outcome)
    /\ phase' = IF outcome = "ok" THEN "built" ELSE "failed"
    /\ UNCHANGED <<control_recv, pending_recv_streams, got_peer_settings, shared,
                   envVars, lastClose, hist, reqVars>>

(* ------------------------- transport and peer -------------------------- *)

\* a unidirectional stream the peer opened: its type, whether the type can be
\* read yet, the frames written and not yet read, and how the stream ends
NewUni(type) == [type |-> type, st |-> "wait", frames |-> <<>>, tail |-> "open"]

PeerOpenUni(type) ==
    /\ phase = "built"
    /\ connState = "open"
    /\ Len(uni) < load.uni
    /\ uni' = Append(uni, NewUni(type))
    /\ UNCHANGED <<driverVars, shared, uniAccepted, connState, bidiIncoming,
                   bidiOpened, closeCalls, load, lastClose, hist, reqVars>>

\* frames written by the peer and not yet read by the driver
RECURSIVE InFlight(_)
InFlight(streams) ==
    IF streams = <<>> THEN 0 ELSE Len(Head(streams).frames) + InFlight(Tail(streams))

\* the type of stream i reaches the client
PeerSendType(i) ==
    /\ i \in 1..Len(uni)
    /\ uni[i].st = "wait" /\ uni[i].tail = "open"
    /\ uni' = [uni EXCEPT ![i].st = "ready"]
    /\ UNCHANGED <<driverVars, shared, uniAccepted, connState, bidiIncoming,
                   bidiOpened, closeCalls, load, lastClose, hist, reqVars>>

\* the peer writes a frame on a control stream of its own
PeerSendControlFrame(i, f) ==
    /\ i \in 1..Len(uni)
    /\ uni[i].type = "CONTROL" /\ uni[i].st = "ready" /\ uni[i].tail = "open"
    /\ InFlight(uni) < load.ctl
    /\ uni' = [uni EXCEPT ![i].frames = Append(@, f)]
    /\ UNCHANGED <<driverVars, shared, uniAccepted, connState, bidiIncoming,
                   bidiOpened, closeCalls, load, lastClose, hist, reqVars>>

\* the peer finishes or resets a stream: a control stream after its type, any
\* other stream before its type was sent
PeerEndUni(i, how) ==
    /\ load.streamEnds
    /\ i \in 1..Len(uni)
    /\ uni[i].tail = "open"
    /\ \/ uni[i].type = "CONTROL" /\ uni[i].st = "ready"
       \/ uni[i].st = "wait" /\ how = "reset"
    /\ uni' = [uni EXCEPT ![i].tail = how]
    /\ UNCHANGED <<driverVars, shared, uniAccepted, connState, bidiIncoming,
                   bidiOpened, closeCalls, load, lastClose, hist, reqVars>>

PeerOpenBidi ==
    /\ phase = "built"
    /\ connState = "open"
    /\ bidiOpened < load.bidi
    /\ bidiIncoming' = bidiIncoming + 1
    /\ bidiOpened' = bidiOpened + 1
    /\ UNCHANGED <<driverVars, shared, uni, uniAccepted, connState, closeCalls,
                   load, lastClose, hist, reqVars>>

\* the connection ends: closed by the peer, or lost
ConnectionEnds(how) ==
    /\ phase = "built"
    /\ load.connEnds
    /\ connState = "open"
    /\ connState' = how
    /\ UNCHANGED <<driverVars, shared, uni, uniAccepted, bidiIncoming, bidiOpened,
                   closeCalls, load, lastClose, hist, reqVars>>

\* quic::Connection::poll_accept_recv
TransportPollAcceptRecv(d) ==
    IF d.uniAccepted < Len(d.uni) THEN "stream"
    ELSE IF d.connState = "closed" THEN "none"
    ELSE IF d.connState = "error" THEN "error"
    ELSE "pending"

\* quic::Connection::poll_accept_bidi
TransportPollAcceptBidi(d) ==
    IF d.bidiIncoming > 0 THEN "stream"
    ELSE IF d.connState = "closed" THEN "none"
    ELSE IF d.connState = "error" THEN "error"
    ELSE "pending"

\* AcceptRecvStream::poll_type
PollType(s) ==
    IF s.st = "ready" THEN "ready"
    ELSE IF s.tail # "open" THEN "error"
    ELSE "pending"

\* AcceptRecvStream::into_stream; on a stream whose type was never read the
\* outcome is the collaborator's (unres: "panic" or "error")
IntoStream(s, unres) ==
    IF s.st # "ready" THEN unres
    ELSE IF s.type = "CONTROL" THEN "control"
    ELSE "other"

\* FrameStream::poll_next
FramePollNext(s) ==
    IF s.frames # <<>> THEN "frame"
    ELSE IF s.tail = "fin" THEN "none"
    ELSE IF s.tail = "reset" THEN "error"
    ELSE "pending"

(* ------------------------- ConnectionInner ----------------------------- *)

\* the driver and what it works on, as one value
DriverState ==
    [control_recv |-> control_recv, pending |-> pending_recv_streams,
     got |-> got_peer_settings, shared |-> shared, uni |-> uni,
     uniAccepted |-> uniAccepted, connState |-> connState,
     bidiIncoming |-> bidiIncoming, closeCalls |-> closeCalls,
     assigned |-> hist.assigned, seen |-> hist.seen, read |-> hist.read]

Indexes(n) == [i \in 1..n |-> i]

\* Vec::remove(index), indexes counted from 1
RemoveAt(seq, index) == SubSeq(seq, 1, index - 1) \o SubSeq(seq, index + 1, Len(seq))

\* poll_accept_recv, first loop: every stream the transport has ready is
\* pushed on pending_recv_streams
AcceptAll(d) ==
    [d EXCEPT !.pending = @ \o [i \in 1..(Len(d.uni) - d.uniAccepted) |-> d.uniAccepted + i],
              !.uniAccepted = Len(d.uni)]

\* poll_accept_recv, second loop: the indexes whose type is now known
Resolved(d) ==
    SelectSeq(Indexes(Len(d.pending)), LAMBDA i : PollType(d.uni[d.pending[i]]) = "ready")

\* poll_accept_recv, second loop: some poll_type failed
TypeFailed(d) ==
    \E i \in 1..Len(d.pending) : PollType(d.uni[d.pending[i]]) = "error"

\* poll_accept_recv, second loop: the streams poll_type was called on (the
\* loop returns at the first failure)
Polled(d) ==
    {d.pending[i] : i \in {j \in 1..Len(d.pending) :
        \A k \in 1..(j - 1) : PollType(d.uni[d.pending[k]]) # "error"}}

\* the control streams among those whose type is known to the driver
SeenControl(d) ==
    d.seen \cup {sid \in Polled(d) : PollType(d.uni[sid]) = "ready"
                                      /\ d.uni[sid].type = "CONTROL"}

\* poll_accept_recv, third loop: "for index in resolved": the indexes were
\* taken before any removal and are used as they are (index + 1 here)
RECURSIVE DispatchResolved(_, _, _)
DispatchResolved(d, resolved, unres) ==
    IF resolved = <<>> THEN [d |-> d, res |-> Pending]
    ELSE LET index == Head(resolved) IN
         IF index > Len(d.pending) THEN [d |-> d, res |-> Panicked]
         ELSE LET sid == d.pending[index]
                  d1 == [d EXCEPT !.pending = RemoveAt(@, index)]
                  k == IntoStream(d.uni[sid], unres)
              IN CASE k = "control" ->
                        DispatchResolved([d1 EXCEPT !.control_recv = sid,
                                                    !.assigned = Append(@, sid)],
                                         Tail(resolved), unres)
                   [] k = "other" -> DispatchResolved(d1, Tail(resolved), unres)
                   [] k = "panic" -> [d |-> d1, res |-> Panicked]
                   [] OTHER ->
                        [d |-> d1, res |-> ReadyErr(CollaboratorError("into_stream"))]

\* ConnectionInner::poll_accept_recv
PollAcceptRecv(d, unres) ==
    LET d1 == AcceptAll(d)
        t == TransportPollAcceptRecv(d1)
    IN IF t = "none"
         THEN [d |-> d1, res |-> ReadyErr(TransportError(<<"Connection closed unexpected">>))]
       ELSE IF t = "error"
         THEN [d |-> d1, res |-> ReadyErr(TransportError(<<"accept">>))]
       ELSE IF TypeFailed(d1)
         THEN [d |-> [d1 EXCEPT !.seen = SeenControl(d1)],
               res |-> ReadyErr(TransportError(<<"stream type">>))]
       ELSE DispatchResolved([d1 EXCEPT !.seen = SeenControl(d1)], Resolved(d1), unres)

\* as ControlFrameResult, but SETTINGS are accepted whenever they come
ControlFrameResult_AnySettings(got, f) ==
    IF f.kind = "Settings" THEN NoError
    ELSE IF f.kind \in {"CancelPush", "MaxPushId", "Goaway"} /\ ~got
      THEN ProtocolError("H3_MISSING_SETTINGS", NoReason)
    ELSE ProtocolError("H3_FRAME_UNEXPECTED", <<"on control stream", f.kind>>)

\* poll_control, the match on a received frame: the error, or NoError for Ok
ControlFrameResult(got, f) ==
    IF f.kind = "Settings" /\ ~got THEN NoError
    ELSE IF f.kind \in {"CancelPush", "MaxPushId", "Goaway"} /\ ~got
      THEN ProtocolError("H3_MISSING_SETTINGS", NoReason)
    ELSE ProtocolError("H3_FRAME_UNEXPECTED", <<"on control stream", f.kind>>)

\* settings.get(SettingId::MAX_HEADER_LIST_SIZE).unwrap_or(VarInt::MAX.0)
MaxHeaderListSize(f) == IF f.val = NoSetting THEN VarIntMax ELSE f.val

\* poll_control, the Settings arm
RecordSettings(d, f) ==
    [d EXCEPT !.got = TRUE, !.shared.peer_max_field_section_size = MaxHeaderListSize(f)]

\* ConnectionInner::poll_control
PollControl(d, unres) ==
    IF d.control_recv = 0
      THEN LET Accepted(a) == [d |-> a.d, res |-> a.res, frame |-> NoFrame]
           IN Accepted(PollAcceptRecv(d, unres))
    ELSE LET s == d.uni[d.control_recv]
             n == FramePollNext(s)
         IN CASE n = "pending" -> [d |-> d, res |-> Pending, frame |-> NoFrame]
              [] n = "error" ->
                   [d |-> d, res |-> ReadyErr(TransportError(<<"control stream">>)),
                    frame |-> NoFrame]
              [] n = "none" ->
                   [d |-> d,
                    res |-> ReadyErr(ProtocolError("H3_CLOSED_CRITICAL_STREAM",
                                                   <<"control stream closed">>)),
                    frame |-> NoFrame]
              [] OTHER ->
                   LET f == Head(s.frames)
                       d1 == [d EXCEPT !.uni[d.control_recv].frames = Tail(@),
                                       !.read = TRUE]
                       e == ControlFrameResult(d.got, f)
                   IN IF e = NoError
                        THEN [d |-> RecordSettings(d1, f), res |-> ReadyOk, frame |-> f]
                      ELSE [d |-> d1, res |-> ReadyErr(e), frame |-> f]

\* as Close, but the error is not recorded in the shared state
Close_NoRecord(d, code, reason) ==
    [d EXCEPT !.closeCalls = Append(@, [code |-> code, reason |-> reason])]

\* as Close, but an error already recorded is taken away
Close_Reset(d, code, reason) ==
    [d EXCEPT !.shared.error = IF @ # NoError THEN NoError ELSE ProtocolError(code, reason),
              !.closeCalls = Append(@, [code |-> code, reason |-> reason])]

\* ConnectionInner::close: the state it leaves
Close(d, code, reason) ==
    [d EXCEPT !.shared.error = ProtocolError(code, reason),
              !.closeCalls = Append(@, [code |-> code, reason |-> reason])]

\* ConnectionInner::close: the error it returns
CloseError(code, reason) == ProtocolError(code, reason)

(* ------------------------- client::Connection -------------------------- *)

\* poll_close, the match on a frame poll_control returned Ok: the error
\* poll_close returns, or NoError to go round the loop again
ClientFrameResult(f) ==
    IF f.kind = "Settings" THEN NoError
    ELSE IF f.kind = "Goaway" THEN NoError
    ELSE ProtocolError("H3_FRAME_UNEXPECTED", <<"on client control stream", f.kind>>)

\* poll_close, "while let Poll::Ready(frame) = self.inner.poll_control(cx)?".
\* o is what the call has observed so far: the last frame taken from the
\* control stream, whether SETTINGS were still awaited when it was taken and
\* whether it was the first frame ever read from a control stream.
RECURSIVE PollCloseControl(_, _, _)
PollCloseControl(d, unres, o) ==
    LET Observed(r) ==
            IF r.frame = NoFrame THEN o
            ELSE [frame |-> r.frame, awaiting |-> ~d.got, first |-> ~d.read]
        Polled1(r, o1) ==
            IF r.res = ReadyOk
              THEN IF ClientFrameResult(r.frame) = NoError
                     THEN PollCloseControl(r.d, unres, o1)
                   ELSE [d |-> r.d, res |-> ReadyErr(ClientFrameResult(r.frame)),
                         ctl |-> r.res, o |-> o1]
            ELSE [d |-> r.d, res |-> r.res, ctl |-> r.res, o |-> o1]
        Polled0(r) == Polled1(r, Observed(r))
    IN Polled0(PollControl(d, unres))

BidiReason == <<"client received a bidirectionnal stream">>

\* Connection::poll_close
PollCloseResult(d, unres) ==
    LET Taken(c, b) == IF b = "stream" THEN [c.d EXCEPT !.bidiIncoming = @ - 1] ELSE c.d
        AcceptRequest(c, b) ==
            IF c.res # Pending
              THEN [d |-> c.d, res |-> c.res, ctl |-> c.ctl, o |-> c.o, bidi |-> "notpolled"]
            ELSE IF b # "pending"
              THEN [d |-> Close(Taken(c, b), "H3_STREAM_CREATION_ERROR", BidiReason),
                    res |-> ReadyErr(CloseError("H3_STREAM_CREATION_ERROR", BidiReason)),
                    ctl |-> c.ctl, o |-> c.o, bidi |-> b]
            ELSE [d |-> c.d, res |-> Pending, ctl |-> c.ctl, o |-> c.o, bidi |-> b]
        Controlled(c) == AcceptRequest(c, TransportPollAcceptBidi(c.d))
    IN Controlled(PollCloseControl(d, unres,
                                   [frame |-> NoFrame, awaiting |-> FALSE, first |-> FALSE]))

\* the call returned an error for a frame it took from the control stream
FrameRefused(r) ==
    /\ r.res.poll = "Ready" /\ r.res.err # NoError
    /\ r.o.frame # NoFrame
    /\ r.res.err.kind = "Protocol"
    /\ r.res.err.code \in {"H3_MISSING_SETTINGS", "H3_FRAME_UNEXPECTED"}

\* the user calls poll_close
PollClose(unres) ==
    /\ phase = "built"
    /\ Len(closeCalls) < MaxCloseCalls
    /\ LET Returned(r) ==
        /\ phase' = IF r.res = Panicked THEN "panicked" ELSE phase
        /\ control_recv' = r.d.control_recv
        /\ pending_recv_streams' = r.d.pending
        /\ got_peer_settings' = r.d.got
        /\ shared' = r.d.shared
        /\ uni' = r.d.uni
        /\ uniAccepted' = r.d.uniAccepted
        /\ bidiIncoming' = r.d.bidiIncoming
        /\ closeCalls' = r.d.closeCalls
        /\ lastClose' = [res |-> r.res, ctl |-> r.ctl, frame |-> r.o.frame,
                         awaiting |-> r.o.awaiting, first |-> r.o.first,
                         second |-> (r.d.seen # hist.seen /\ Cardinality(r.d.seen) >= 2),
                         hadBidi |-> (bidiIncoming > 0), bidi |-> r.bidi]
        /\ hist' = [assigned |-> r.d.assigned, seen |-> r.d.seen, read |-> r.d.read,
                    ctlFailed |-> hist.ctlFailed \/ FrameRefused(r)]
       IN Returned(PollCloseResult(DriverState, unres))
    /\ UNCHANGED <<buildErr, max_field_section_size, control_send, connState, bidiOpened,
                   load, reqVars>>

(* ------------------------- client::SendRequest ------------------------- *)

\* the bidi stream poll_open_bidi returns
NewStream == [NoStream EXCEPT !.opened = TRUE]

\* send_request up to its first suspension: the snapshot of the peer limit
\* and the construction of the header list; the request stream of an earlier
\* request has been dropped by then
SendRequestStart(valid, size) ==
    /\ phase \in {"built", "panicked"}
    /\ sr.pc = "idle"
    /\ IF valid
         THEN /\ sr' = [pc |-> "opening",
                        snapshot |-> shared.peer_max_field_section_size, size |-> size]
              /\ sendRes' = NoSendResult
         ELSE /\ sr' = Idle
              /\ sendRes' = [op |-> "send_request",
                             err |-> CollaboratorError("Header::request"), out |-> "none",
                             connErr |-> shared.error,
                             limitNow |-> shared.peer_max_field_section_size]
    /\ stream' = NoStream
    /\ req_stream' = NoRequestStream
    /\ lastOp' = NoOp
    /\ accepted' = <<>>
    /\ UNCHANGED <<driverVars, shared, envVars, lastClose, hist>>

\* as SendRequestError, but the block is not checked against the peer limit
SendRequestError_NoLimit(snapshot, size, outcome) ==
    IF outcome = "open_err" THEN TransportError(<<"open_bidi">>)
    ELSE IF size = Malformed THEN CollaboratorError("encode_stateless")
    ELSE IF outcome = "write_err" THEN TransportError(<<"write">>)
    ELSE NoError

\* as SendRequestError, but the block is checked against the peer limit the
\* shared state holds when the stream is open
SendRequestError_LateLimit(snapshot, size, outcome) ==
    IF outcome = "open_err" THEN TransportError(<<"open_bidi">>)
    ELSE IF size = Malformed THEN CollaboratorError("encode_stateless")
    ELSE IF size > shared.peer_max_field_section_size
      THEN HeaderTooBig(size, shared.peer_max_field_section_size)
    ELSE IF outcome = "write_err" THEN TransportError(<<"write">>)
    ELSE NoError

\* send_request after poll_open_bidi: the error it returns, NoError for Ok
SendRequestError(snapshot, size, outcome) ==
    IF outcome = "open_err" THEN TransportError(<<"open_bidi">>)
    ELSE IF size = Malformed THEN CollaboratorError("encode_stateless")
    ELSE IF size > snapshot THEN HeaderTooBig(size, snapshot)
    ELSE IF outcome = "write_err" THEN TransportError(<<"write">>)
    ELSE NoError

\* send_request after poll_open_bidi: what it writes on the new stream
SendRequestWritten(snapshot, size, outcome) ==
    IF SendRequestError(snapshot, size, outcome) = NoError
      THEN <<Frame("Headers", size)>>
    ELSE <<>>

\* send_request from the completion of poll_open_bidi to its return
SendRequestOpened(outcome) ==
    /\ sr.pc = "opening"
    /\ LET e == SendRequestError(sr.snapshot, sr.size, outcome) IN
        /\ sendRes' = [op |-> "send_request", err |-> e,
                       out |-> IF e = NoError THEN "stream" ELSE "none",
                       connErr |-> shared.error,
                       limitNow |-> shared.peer_max_field_section_size]
        /\ stream' = IF outcome = "open_err" THEN NoStream
                     ELSE [NewStream EXCEPT
                             !.wire = SendRequestWritten(sr.snapshot, sr.size, outcome)]
        /\ req_stream' = IF e = NoError
                           THEN [live |-> TRUE, trailers |-> <<>>,
                                 max_field_section_size |-> max_field_section_size]
                         ELSE NoRequestStream
    /\ sr' = Idle
    /\ UNCHANGED <<driverVars, shared, envVars, lastClose, hist, lastOp, accepted>>

(* ------------------- the peer on the request stream -------------------- *)

RespFrames ==
    {Frame("Headers", v) : v \in BlockSizes \cup {Malformed}}
    \cup {Frame("Data", 2), Frame("Settings", 64)}

PeerSendResp(f) ==
    /\ req_stream.live
    /\ stream.tail = "open"
    /\ stream.sent < load.resp
    /\ stream' = [stream EXCEPT !.frames = Append(@, f), !.sent = @ + 1]
    /\ UNCHANGED <<driverVars, shared, envVars, lastClose, hist, sr, sendRes, req_stream,
                   lastOp, accepted>>

\* the peer finishes or resets its half of the request stream
PeerEndStream(how) ==
    /\ req_stream.live
    /\ load.resp > 0
    /\ stream.tail = "open"
    /\ stream' = [stream EXCEPT !.tail = how]
    /\ UNCHANGED <<driverVars, shared, envVars, lastClose, hist, sr, sendRes, req_stream,
                   lastOp, accepted>>

\* the peer stops reading the request stream: writes on it fail from now on
PeerStopSending ==
    /\ req_stream.live
    /\ load.sends > 0
    /\ ~stream.broken
    /\ stream' = [stream EXCEPT !.broken = TRUE]
    /\ UNCHANGED <<driverVars, shared, envVars, lastClose, hist, sr, sendRes, req_stream,
                   lastOp, accepted>>

(* --------------------------- RequestStream ----------------------------- *)

\* the request stream and the QUIC stream under it, as one value
StreamState == [s |-> stream, r |-> req_stream, log |-> accepted]

Done(x, err, out) == [x |-> x, err |-> err, out |-> out]

\* FrameStream::poll_next taking a frame: a DATA frame leaves its payload to
\* be read by poll_data
TakeFrame(s) ==
    [s EXCEPT !.frames = Tail(@),
              !.remaining = IF Head(s.frames).kind = "Data" THEN Head(s.frames).val ELSE 0]

\* FrameStream::has_data
HasData(s) == s.remaining > 0

\* FrameStream::poll_data
PollData(s) ==
    IF s.tail = "reset" /\ s.frames = <<>> THEN "error" ELSE "data"

StreamError == TransportError(<<"stream">>)

\* as RecvResponse, but an oversize block is refused without stop_sending
RecvResponse_NoStop(x) ==
    LET n == FramePollNext(x.s)
        f == Head(x.s.frames)
        x1 == [x EXCEPT !.s = TakeFrame(@)]
    IN CASE n = "error" -> Done(x, StreamError, "none")
         [] n = "none" ->
              Done(x, ProtocolError("H3_GENERAL_PROTOCOL_ERROR",
                                    <<"Did not receive response headers">>), "none")
         [] OTHER ->
              IF f.kind # "Headers"
                THEN Done(x1, ProtocolError("H3_FRAME_UNEXPECTED",
                                            <<"First response frame is not headers">>), "none")
              ELSE IF f.val = Malformed
                THEN Done(x1, CollaboratorError("decode_stateless"), "none")
              ELSE IF f.val > x.r.max_field_section_size
                THEN Done(x1, HeaderTooBig(f.val, x.r.max_field_section_size), "none")
              ELSE Done([x1 EXCEPT !.log = Append(@, "response")], NoError, "response")

\* client::RequestStream::recv_response
RecvResponse(x) ==
    LET n == FramePollNext(x.s)
        f == Head(x.s.frames)
        x1 == [x EXCEPT !.s = TakeFrame(@)]
    IN CASE n = "error" -> Done(x, StreamError, "none")
         [] n = "none" ->
              Done(x, ProtocolError("H3_GENERAL_PROTOCOL_ERROR",
                                    <<"Did not receive response headers">>), "none")
         [] OTHER ->
              IF f.kind # "Headers"
                THEN Done(x1, ProtocolError("H3_FRAME_UNEXPECTED",
                                            <<"First response frame is not headers">>), "none")
              ELSE IF f.val = Malformed
                THEN Done(x1, CollaboratorError("decode_stateless"), "none")
              ELSE IF f.val > x.r.max_field_section_size
                THEN Done([x1 EXCEPT !.s.stops = Append(@, "H3_REQUEST_REJECTED")],
                          HeaderTooBig(f.val, x.r.max_field_section_size), "none")
              ELSE Done([x1 EXCEPT !.log = Append(@, "response")], NoError, "response")

\* connection::RequestStream::recv_data, from poll_data on
RecvDataBody(x, sh) ==
    IF PollData(x.s) = "error"
      THEN Done(x, maybe_conn_err(sh, StreamError), "none")
    ELSE Done([x EXCEPT !.s.remaining = @ - 1,
                        !.log = IF @ # <<>> /\ @[Len(@)] = "data" THEN @
                                ELSE Append(@, "data")],
              NoError, "data")

\* connection::RequestStream::recv_data
RecvData(x, sh) ==
    IF HasData(x.s) THEN RecvDataBody(x, sh)
    ELSE LET n == FramePollNext(x.s)
             f == Head(x.s.frames)
             x1 == [x EXCEPT !.s = TakeFrame(@)]
         IN CASE n = "error" -> Done(x, maybe_conn_err(sh, StreamError), "none")
              [] n = "none" -> Done(x, NoError, "end")
              [] OTHER ->
                   IF f.kind = "Data" THEN RecvDataBody(x1, sh)
                   ELSE IF f.kind = "Headers"
                     THEN Done([x1 EXCEPT !.r.trailers = <<f.val>>,
                                          !.log = Append(@, "trailers")],
                               NoError, "end")
                   ELSE Done(x1, ProtocolError("H3_FRAME_UNEXPECTED", NoReason), "none")

\* connection::RequestStream::recv_trailers, from decode_stateless on
DecodeTrailers(x, block) ==
    IF block = Malformed THEN Done(x, CollaboratorError("decode_stateless"), "none")
    ELSE IF block > x.r.max_field_section_size
      THEN Done(x, HeaderTooBig(block, x.r.max_field_section_size), "none")
    ELSE Done(x, NoError, "trailers")

\* as InnerRecvTrailers, but the pending-trailers slot is read without being
\* emptied
InnerRecvTrailers_KeepSlot(x, sh) ==
    IF x.r.trailers # <<>>
      THEN DecodeTrailers(x, x.r.trailers[1])
    ELSE LET n == FramePollNext(x.s)
             f == Head(x.s.frames)
             x1 == [x EXCEPT !.s = TakeFrame(@)]
         IN CASE n = "error" -> Done(x, maybe_conn_err(sh, StreamError), "none")
              [] n = "none" -> Done(x, NoError, "none")
              [] OTHER ->
                   IF f.kind = "Headers"
                     THEN LET t == DecodeTrailers(x1, f.val)
                          IN IF t.err = NoError
                               THEN [t EXCEPT !.x.log = Append(@, "trailers")]
                             ELSE t
                   ELSE Done(x1, ProtocolError("H3_FRAME_UNEXPECTED", NoReason), "none")

\* connection::RequestStream::recv_trailers
InnerRecvTrailers(x, sh) ==
    IF x.r.trailers # <<>>
      THEN DecodeTrailers([x EXCEPT !.r.trailers = <<>>], x.r.trailers[1])
    ELSE LET n == FramePollNext(x.s)
             f == Head(x.s.frames)
             x1 == [x EXCEPT !.s = TakeFrame(@)]
         IN CASE n = "error" -> Done(x, maybe_conn_err(sh, StreamError), "none")
              [] n = "none" -> Done(x, NoError, "none")
              [] OTHER ->
                   IF f.kind = "Headers"
                     THEN LET t == DecodeTrailers(x1, f.val)
                          IN IF t.err = NoError
                               THEN [t EXCEPT !.x.log = Append(@, "trailers")]
                             ELSE t
                   ELSE Done(x1, ProtocolError("H3_FRAME_UNEXPECTED", NoReason), "none")

\* as RecvTrailers, but without the stop_sending of the client wrapper
RecvTrailers_NoStop(x, sh) == InnerRecvTrailers(x, sh)

\* client::RequestStream::recv_trailers
RecvTrailers(x, sh) ==
    LET res == InnerRecvTrailers(x, sh)
    IN IF res.err.kind = "HeaderTooBig"
         THEN [res EXCEPT !.x.s.stops = Append(@, "H3_REQUEST_CANCELLED")]
       ELSE res

WriteError == TransportError(<<"write">>)

\* connection::RequestStream::send_data
SendData(x, sh) ==
    IF x.s.broken THEN Done(x, maybe_conn_err(sh, WriteError), "none")
    ELSE Done([x EXCEPT !.s.wire = Append(@, Frame("Data", 1))], NoError, "none")

\* connection::RequestStream::send_trailers, the trailers encoding to size
SendTrailers(x, sh, size) ==
    IF size > sh.peer_max_field_section_size
      THEN Done(x, HeaderTooBig(size, sh.peer_max_field_section_size), "none")
    ELSE IF x.s.broken THEN Done(x, maybe_conn_err(sh, WriteError), "none")
    ELSE Done([x EXCEPT !.s.wire = Append(@, Frame("Headers", size))], NoError, "none")

\* connection::RequestStream::finish
Finish(x, sh) ==
    IF x.s.broken THEN Done(x, maybe_conn_err(sh, WriteError), "none")
    ELSE Done([x EXCEPT !.s.finished = TRUE], NoError, "none")

\* a receive operation can return: the next frame, the end of the stream or
\* an error is there
Readable == HasData(stream) \/ FramePollNext(stream) # "pending"

\* the user calls an operation of the request stream and it returns res
Operation(op, res) ==
    /\ req_stream.live
    /\ stream' = res.x.s
    /\ req_stream' = res.x.r
    /\ accepted' = res.x.log
    /\ lastOp' = [op |-> op, err |-> res.err, out |-> res.out,
                  connErr |-> shared.error]
    /\ UNCHANGED <<driverVars, shared, envVars, lastClose, hist, sr, sendRes>>

UserRecvResponse ==
    /\ ~HasData(stream) /\ Readable
    /\ Operation("recv_response", RecvResponse(StreamState))

UserRecvData ==
    /\ Readable
    /\ Operation("recv_data", RecvData(StreamState, shared))

UserRecvTrailers ==
    /\ req_stream.trailers # <<>> \/ (~HasData(stream) /\ Readable)
    /\ Operation("recv_trailers", RecvTrailers(StreamState, shared))

UserSendData ==
    /\ ~stream.finished
    /\ Len(stream.wire) <= load.sends
    /\ Operation("send_data", SendData(StreamState, shared))

UserSendTrailers(size) ==
    /\ ~stream.finished
    /\ Len(stream.wire) <= load.sends
    /\ Operation("send_trailers", SendTrailers(StreamState, shared, size))

UserFinish ==
    /\ ~stream.finished
    /\ load.sends > 0
    /\ Operation("finish", Finish(StreamState, shared))

(* --------------------------- specification ----------------------------- *)

Next ==
    \/ \E m \in Limits, outcome \in BuildOutcomes : Build(m, outcome)
    \/ \E type \in UniTypes : PeerOpenUni(type)
    \/ \E i \in 1..MaxUniStreams : PeerSendType(i)
    \/ \E i \in 1..MaxUniStreams, f \in ControlFrames : PeerSendControlFrame(i, f)
    \/ \E i \in 1..MaxUniStreams, how \in {"fin", "reset"} : PeerEndUni(i, how)
    \/ PeerOpenBidi
    \/ \E how \in {"closed", "error"} : ConnectionEnds(how)
    \/ \E unres \in {"panic", "error"} : PollClose(unres)

Spec == Init /\ [][Next]_vars

NextReq ==
    \/ Next
    \/ \E valid \in BOOLEAN, size \in BlockSizes \cup {Malformed} :
          SendRequestStart(valid, size)
    \/ \E outcome \in {"ok", "open_err", "write_err"} : SendRequestOpened(outcome)
    \/ \E f \in RespFrames : PeerSendResp(f)
    \/ \E how \in {"fin", "reset"} : PeerEndStream(how)
    \/ PeerStopSending
    \/ UserRecvResponse
    \/ UserRecvData
    \/ UserRecvTrailers
    \/ UserSendData
    \/ \E size \in BlockSizes : UserSendTrailers(size)
    \/ UserFinish

SpecReq == InitReq /\ [][NextReq]_vars

(* ------------------------------ claims --------------------------------- *)

ControlMarker == [item |-> "StreamType", val |-> "CONTROL"]

\* C1: when build succeeds the outbound control stream carries the CONTROL
\* stream-type marker and then exactly one SETTINGS frame whose
\* MAX_HEADER_LIST_SIZE is the configured max_field_section_size; whatever
\* build does, nothing is written on that stream before the marker.
C1_ControlStreamPreamble ==
    /\ phase \in {"built", "panicked"} =>
         /\ Len(control_send) = 2
         /\ control_send[1] = ControlMarker
         /\ control_send[2].item = "Settings"
         /\ control_send[2].val = max_field_section_size
    /\ control_send # <<>> => control_send[1] = ControlMarker

C1_Witness ==
    /\ phase = "built"
    /\ max_field_section_size = 64
    /\ Len(control_send) = 2

MissingSettings == ProtocolError("H3_MISSING_SETTINGS", NoReason)

\* C2: while SETTINGS are awaited, every frame other than SETTINGS that is
\* the first frame of the peer control stream makes poll_close return
\* H3_MISSING_SETTINGS.
C2_FirstFrameNotSettings ==
    (/\ lastClose.frame # NoFrame
     /\ lastClose.first
     /\ lastClose.awaiting
     /\ lastClose.frame.kind # "Settings")
    => lastClose.res = ReadyErr(MissingSettings)

\* C3: once poll_close has returned an error for a frame of the peer control
\* stream, no later step takes a frame from a control stream, accepts SETTINGS
\* or changes the shared peer_max_field_section_size.
C3_TerminalAfterError ==
    [][hist.ctlFailed =>
         /\ \A i \in 1..Len(uni) : Len(uni'[i].frames) >= Len(uni[i].frames)
         /\ got_peer_settings' = got_peer_settings
         /\ shared'.peer_max_field_section_size = shared.peer_max_field_section_size]_vars

\* C4: in the steady state a GOAWAY frame is accepted: the poll_close that
\* takes it as its last frame does not return an error.
C4_GoawayAccepted ==
    (/\ lastClose.frame.kind = "Goaway"
     /\ ~lastClose.awaiting)
    => lastClose.res.err = NoError

\* C5: when a second stream resolves to type CONTROL, poll_close fails with
\* H3_STREAM_CREATION_ERROR and control_recv is still the first control stream.
C5_ControlSetOnce ==
    lastClose.second =>
        /\ lastClose.res.poll = "Ready"
        /\ lastClose.res.err.kind = "Protocol"
        /\ lastClose.res.err.code = "H3_STREAM_CREATION_ERROR"
        /\ Len(hist.assigned) <= 1

BidiError == ProtocolError("H3_STREAM_CREATION_ERROR", BidiReason)

\* C6: a poll_close that finds a peer-opened bidirectional stream waiting, and
\* whose control-stream polling ends Pending, returns H3_STREAM_CREATION_ERROR
\* with the client-bidi reason; the same error is in the shared state and
\* close(code, reason) went to the transport.
C6_BidiRejected ==
    (lastClose.hadBidi /\ lastClose.ctl = Pending) =>
        /\ lastClose.res = ReadyErr(BidiError)
        /\ shared.error = BidiError
        /\ closeCalls # <<>>
        /\ closeCalls[Len(closeCalls)] =
             [code |-> "H3_STREAM_CREATION_ERROR", reason |-> BidiReason]

C6_Witness ==
    /\ lastClose.hadBidi
    /\ lastClose.ctl = Pending
    /\ lastClose.bidi = "stream"
    /\ lastClose.res = ReadyErr(BidiError)
    /\ Len(closeCalls) = 1

\* C7: when send_request has opened its bidi stream and the estimated size
\* of the encoded header block exceeds the peer limit it read at its start,
\* it fails with HeaderTooBig{actual = size, limit = that limit}, nothing is
\* written on the stream and no request stream is returned.
C7_OversizeRequestRefused ==
    [][(/\ \E outcome \in {"ok", "write_err"} : SendRequestOpened(outcome)
        /\ sr.size # Malformed
        /\ sr.size > sr.snapshot)
       => /\ sendRes'.err = HeaderTooBig(sr.size, sr.snapshot)
          /\ sendRes'.out = "none"
          /\ stream'.opened /\ stream'.wire = <<>>
          /\ ~req_stream'.live]_vars

C7_Witness ==
    /\ sendRes.op = "send_request"
    /\ sendRes.err = HeaderTooBig(4096, 64)
    /\ shared.peer_max_field_section_size = 64
    /\ stream.opened /\ stream.wire = <<>>
    /\ ~req_stream.live

\* C8: a recv_response that takes a HEADERS frame whose block decodes to more
\* than the stream's max_field_section_size issues stop_sending
\* (H3_REQUEST_REJECTED) exactly once and fails with HeaderTooBig{actual =
\* decoded size, limit = max_field_section_size}; when the block is within
\* the limit it issues no stop_sending.
C8_OversizeResponseRejected ==
    [][(/\ UserRecvResponse
        /\ FramePollNext(stream) = "frame"
        /\ Head(stream.frames).kind = "Headers"
        /\ Head(stream.frames).val # Malformed)
       => IF Head(stream.frames).val > req_stream.max_field_section_size
            THEN /\ stream'.stops = Append(stream.stops, "H3_REQUEST_REJECTED")
                 /\ lastOp'.err = HeaderTooBig(Head(stream.frames).val,
                                               req_stream.max_field_section_size)
          ELSE /\ stream'.stops = stream.stops
               /\ lastOp'.err = NoError]_vars

C8_Witness ==
    /\ lastOp.op = "recv_response"
    /\ lastOp.err = HeaderTooBig(4096, 64)
    /\ req_stream.max_field_section_size = 64
    /\ stream.stops = <<"H3_REQUEST_REJECTED">>

\* C9: once the shared connection error is set, every operation of a request
\* stream that fails returns that connection error.
C9_ConnectionErrorWins ==
    (lastOp.connErr # NoError /\ lastOp.err # NoError) => lastOp.err = lastOp.connErr

\* C10: on one request stream the frames are taken in the order response
\* HEADERS, DATA ..., at most one trailer HEADERS: the first frame taken is
\* taken as the response, no later one is, and nothing is taken after a
\* trailer block.
C10_FrameOrder ==
    \A i \in 1..Len(accepted) :
        /\ (accepted[i] = "response") <=> (i = 1)
        /\ (accepted[i] = "trailers") => (i = Len(accepted))

\* what decoding a trailer block of the given estimated size returns under the
\* given local limit
TrailersError(block, limit) ==
    IF block = Malformed THEN CollaboratorError("decode_stateless")
    ELSE IF block > limit THEN HeaderTooBig(block, limit)
    ELSE NoError

\* C11: a recv_data that pulls a HEADERS frame returns end-of-body and stores
\* the block in the pending-trailers slot; a recv_trailers that finds the slot
\* filled decodes that block, pulls no frame from the stream and leaves the
\* slot empty; a recv_trailers that finds the slot empty pulls from the stream.
C11_TrailersSlot ==
    [][/\ (/\ UserRecvData
            /\ ~HasData(stream)
            /\ FramePollNext(stream) = "frame"
            /\ Head(stream.frames).kind = "Headers")
           => /\ lastOp'.err = NoError /\ lastOp'.out = "end"
              /\ req_stream'.trailers = <<Head(stream.frames).val>>
              /\ stream'.frames = Tail(stream.frames)
       /\ (UserRecvTrailers /\ req_stream.trailers # <<>>)
           => /\ stream'.frames = stream.frames
              /\ req_stream'.trailers = <<>>
              /\ lastOp'.err = TrailersError(req_stream.trailers[1],
                                             req_stream.max_field_section_size)
              /\ lastOp'.out = IF lastOp'.err = NoError THEN "trailers" ELSE "none"
       /\ (/\ UserRecvTrailers
            /\ req_stream.trailers = <<>>
            /\ FramePollNext(stream) = "frame")
           => stream'.frames = Tail(stream.frames)]_vars

\* recv_data has buffered a trailer block while another frame is readable
C11_Witness ==
    /\ lastOp.op = "recv_data" /\ lastOp.out = "end"
    /\ req_stream.trailers = <<16>>
    /\ stream.frames # <<>>
    /\ Head(stream.frames).kind = "Headers"

\* C12: when the transport fails to open the bidirectional stream, send_request
\* fails with the protocol error H3_STREAM_CREATION_ERROR and writes no HEADERS
\* frame.
C12_OpenFailure ==
    [][SendRequestOpened("open_err")
       => /\ sendRes'.err.kind = "Protocol"
          /\ sendRes'.err.code = "H3_STREAM_CREATION_ERROR"
          /\ stream'.wire = <<>>]_vars

DriverCodes ==
    {"H3_MISSING_SETTINGS", "H3_FRAME_UNEXPECTED", "H3_CLOSED_CRITICAL_STREAM",
     "H3_STREAM_CREATION_ERROR"}

\* C13: when poll_close returns a protocol error detected by the driver, that
\* error is the error of the shared connection state and close was called for
\* it.
C13_DriverErrorsRecorded ==
    (/\ lastClose.res.poll = "Ready"
     /\ lastClose.res.err.kind = "Protocol"
     /\ lastClose.res.err.code \in DriverCodes)
    => /\ shared.error = lastClose.res.err
       /\ closeCalls # <<>>

\* C14: no step of the driver, of send_request or of a request stream takes
\* the shared connection error back to absent once it is set.
C14_ErrorNeverCleared ==
    [][shared.error # NoError => shared'.error # NoError]_vars

\* the error was set, the driver closed again and a request-stream operation
\* ran after that
C14_Witness ==
    /\ shared.error # NoError
    /\ Len(closeCalls) = 2
    /\ lastOp.op # "none"
    /\ lastOp.connErr # NoError

\* C15: once the peer SETTINGS are recorded, no step changes the shared
\* peer_max_field_section_size, and a poll_close that takes a further
\* SETTINGS frame from the control stream returns H3_FRAME_UNEXPECTED.
C15_SecondSettings ==
    [][/\ got_peer_settings =>
            shared'.peer_max_field_section_size = shared.peer_max_field_section_size
       /\ (lastClose'.frame.kind = "Settings" /\ ~lastClose'.awaiting) =>
            lastClose'.res = ReadyErr(ProtocolError("H3_FRAME_UNEXPECTED",
                                                    <<"on control stream", "Settings">>))]_vars

\* SETTINGS{64} were recorded and a second SETTINGS frame without the entry
\* was taken
C15_Witness ==
    /\ got_peer_settings
    /\ lastClose.frame = Frame("Settings", NoSetting)
    /\ ~lastClose.awaiting
    /\ shared.peer_max_field_section_size = 64

\* C16: a poll_accept_recv call in which the transport accept is pending and
\* no poll_type fails leaves in the pending list exactly the streams whose
\* type is not readable yet, in their order, and no removal is out of range
\* (the call does not panic).
C16_PendingRemoval ==
    [][(/\ \E unres \in {"panic", "error"} : PollClose(unres)
        /\ control_recv = 0
        /\ TransportPollAcceptRecv(AcceptAll(DriverState)) = "pending"
        /\ ~TypeFailed(AcceptAll(DriverState)))
       => /\ phase' # "panicked"
          /\ pending_recv_streams' =
               SelectSeq(AcceptAll(DriverState).pending,
                         LAMBDA sid : PollType(uni[sid]) # "ready")]_vars

\* the trailer block a recv_trailers call started now would decode: the one in
\* the pending-trailers slot, else the HEADERS frame next on the stream
TrailerBlock ==
    IF req_stream.trailers # <<>> THEN req_stream.trailers
    ELSE IF FramePollNext(stream) = "frame" /\ Head(stream.frames).kind = "Headers"
      THEN <<Head(stream.frames).val>>
    ELSE <<>>

\* C17: a recv_trailers whose trailer block decodes to more than the stream's
\* max_field_section_size fails with HeaderTooBig{actual = decoded size,
\* limit = max_field_section_size} and issues stop_sending
\* (H3_REQUEST_CANCELLED); every other recv_trailers issues no stop_sending.
C17_OversizeTrailersCancelled ==
    [][UserRecvTrailers
       => IF TrailerBlock # <<>> /\ TrailerBlock[1] > req_stream.max_field_section_size
            THEN /\ lastOp'.err = HeaderTooBig(TrailerBlock[1],
                                               req_stream.max_field_section_size)
                 /\ stream'.stops = Append(stream.stops, "H3_REQUEST_CANCELLED")
          ELSE /\ stream'.stops = stream.stops
               /\ lastOp'.err.kind # "HeaderTooBig"]_vars

C17_Witness ==
    /\ lastOp.op = "recv_trailers"
    /\ lastOp.err = HeaderTooBig(4096, 64)
    /\ req_stream.max_field_section_size = 64
    /\ stream.stops = <<"H3_REQUEST_CANCELLED">>

\* C18: the limit send_request enforces is the shared
\* peer_max_field_section_size read when the call started: it is read at the
\* start, kept while the call is suspended opening its stream, and when the
\* shared value has changed meanwhile the size check and the HeaderTooBig
\* limit still use the value read at the start.
C18_SnapshotLimit ==
    [][/\ (sr.pc = "idle" /\ sr'.pc = "opening")
           => sr'.snapshot = shared.peer_max_field_section_size
       /\ (sr.pc = "opening" /\ sr'.pc = "opening") => sr'.snapshot = sr.snapshot
       /\ (/\ \E outcome \in {"ok", "write_err"} : SendRequestOpened(outcome)
            /\ sr.size # Malformed
            /\ shared.peer_max_field_section_size # sr.snapshot)
           => IF sr.size > sr.snapshot
                THEN sendRes'.err = HeaderTooBig(sr.size, sr.snapshot)
              ELSE sendRes'.err.kind # "HeaderTooBig"]_vars

\* a block of 4096 was sent although the shared peer limit was 64 when
\* send_request returned: the SETTINGS were recorded during the suspension
C18_Witness ==
    /\ sendRes.op = "send_request"
    /\ sendRes.out = "stream"
    /\ sendRes.limitNow = 64
    /\ stream.wire # <<>> /\ stream.wire[1] = Frame("Headers", 4096)

\* C19: a poll_close that returns Pending leaves no frame readable on the
\* stored peer control stream: it has polled that stream until nothing was
\* readily available, also when the stream was classified in this same call.
C19_PendingAfterDrain ==
    [][(/\ \E unres \in {"panic", "error"} : PollClose(unres)
        /\ lastClose'.res = Pending
        /\ control_recv' # 0)
       => FramePollNext(uni'[control_recv']) # "frame"]_vars

\* C20: poll_close returns, and records, H3_STREAM_CREATION_ERROR with the
\* client-bidi reason only when the transport's bidi accept yielded a stream,
\* not when it yielded an error or the end of the connection.
C20_BidiOnlyForStream ==
    [][(/\ \E unres \in {"panic", "error"} : PollClose(unres)
        /\ \/ lastClose'.res = ReadyErr(BidiError)
           \/ closeCalls' # closeCalls
           \/ shared'.error # shared.error)
       => lastClose'.bidi = "stream"]_vars

====
